---------------------------- MODULE Spec2Model ----------------------------
(***************************************************************************)
(* Gantry dashboard client: the telemetry WebSocket hook (useWebSocket),   *)
(* the App component that derives the status and runs orchestrations, and  *)
(* the CriticalOverlay operator actions.                                   *)
(*                                                                         *)
(* JSON values are records whose DOMAIN is the set of fields the value     *)
(* carries; a field the value lacks reads as undefined (Has is FALSE).     *)
(* JavaScript null is the record Null, which has none of the JSON fields.  *)
(***************************************************************************)
EXTENDS Integers, Sequences, FiniteSets, TLC

\* ---------------------------------------------------------------- bounds
MaxSockets  == 5      \* sockets created in one behaviour (SpecConn)
MaxArrivals == 3      \* mcp_step frames delivered between two resets
MaxStepId   == 2      \* distinct step identifiers on the wire
MaxCycle    == 2      \* cycle numbers carried by telemetry ticks
MaxPending  == 1      \* resume requests in flight at once
MaxRuns     == 2      \* orchestration requests in flight at once
MaxStarted  == 3      \* orchestration requests issued in one behaviour
TickSeconds == 10     \* granularity of the passage of time

\* ------------------------------------------------------ program constants
BaseDelay    == 2000
DelayCap     == 30000
GraceSeconds == 30

Units    == {"ENGINE-001", "ENGINE-002"}
Statuses == {"HEALTHY", "CRITICAL"}

VARIABLES
  unitId,         \* App: useState("ENGINE-001")
  lastMessage,    \* hook state: the live tick
  lastAlert,      \* hook state
  connected,      \* hook state
  criticalEvent,  \* hook state: non-null = halted, the value is the frozen snapshot
  streamingLogs,  \* hook state: the timeline
  agentSolution,  \* hook state
  wsRef,          \* ref: index of the socket in `sockets`, 0 = null
  timer,          \* ref: index of the socket whose onclose set the timeout, 0 = null
  tries,          \* ref: retry counter
  sockets,        \* every WebSocket created so far, with its closure's unit
  data,           \* App state: last orchestration snapshot
  loading,        \* App state
  error,          \* App state: null, or the record of the message shown
  runs,           \* orchestration requests in flight (the unit each was issued for)
  chat,           \* ChatPanel: the unit of the send() awaiting its reply, "" = not sending
  accepts,        \* POST /system-resume requests in flight (handleAccept awaiting)
  graceRemaining, \* seconds until the grace deadline, 0 = no deadline
  started,        \* history: orchestration requests issued so far
  arrived,        \* history: step identifiers delivered since the last timeline reset
  delays,         \* history: reconnect delays scheduled since the last open
  lastOp,         \* history: the handler that ran last
  lastFrame       \* history: the raw frame it was given, NoFrame if none

vars == <<unitId, lastMessage, lastAlert, connected, criticalEvent, streamingLogs,
          agentSolution, wsRef, timer, tries, sockets, data, loading, error, runs,
          chat, accepts, graceRemaining, started, arrived, delays, lastOp, lastFrame>>

hookState == <<lastMessage, lastAlert, criticalEvent, streamingLogs, agentSolution>>
connState == <<connected, wsRef, timer, tries, sockets, delays>>
appState  == <<data, loading, error, runs, started>>

NoFrame == [none |-> TRUE]

\* The history of a handler that takes no frame.
Did(op) == lastOp' = op /\ lastFrame' = NoFrame

\* ------------------------------------------------------------ JSON values
Null == [null |-> TRUE]

Has(o, f) == f \in DOMAIN o

Min(a, b) == IF a < b THEN a ELSE b

\* Telemetry ticks are untyped on the wire: no "type" field.
Ticks(u) ==
  { [unit_id |-> u, cycle |-> c, rul |-> IF s = "HEALTHY" THEN 120 ELSE 0,
     unit_status |-> s] : c \in 1..MaxCycle, s \in Statuses }

\* Alerts: the plain ones carry no telemetry; the last one carries a full snapshot.
Alerts(u) ==
  { [type |-> "alert", unit_id |-> u, severity |-> sv, isError |-> e]
      : sv \in {"info", "critical"}, e \in BOOLEAN }
  \cup { [type |-> "alert", unit_id |-> u, severity |-> "critical", isError |-> TRUE,
          cycle |-> 1, rul |-> 0, unit_status |-> "CRITICAL"] }

Steps == { [type |-> "mcp_step", step |-> i, agent |-> "Watchman"] : i \in 1..MaxStepId }

Solutions == { [type |-> "solution", decision |-> [action |-> a]] : a \in {0, 1} }

Resumed == [type |-> "system_resumed"]

\* A well-formed object whose discriminator is not one the hook knows.
Unknown == [type |-> "heartbeat"]

Parsed(u) == Ticks(u) \cup Alerts(u) \cup Steps \cup Solutions \cup {Resumed, Unknown, Null}

\* A raw frame: text that JSON.parse accepts (and the value it yields) or rejects.
RawFrames(u) ==
  { [wellFormed |-> TRUE, value |-> v] : v \in Parsed(u) }
  \cup { [wellFormed |-> FALSE, value |-> Null] }


\* ----------------------------------------------------- connection manager
\* Mutant: the backoff without its cap.
ReconnectDelayUncapped(n) == BaseDelay * 2^n

\* Math.min(2000 * 2 ** tries.current, 30000)
ReconnectDelay(n) == Min(BaseDelay * 2^n, DelayCap)

Live(s) == sockets[s].st \in {"connecting", "open"}

\* A closed socket whose timeout has fired or was cleared: no handler of it can
\* run again and none of its fields is read again.
Done == [unit |-> "", st |-> "done", delay |-> 0, fresh |-> FALSE]

\* connect(): the closure created for unit u. `fresh` records that the effect,
\* not a reconnect timer, made the call.
connect(u, socks, fresh) ==
  IF u = ""
  THEN /\ sockets' = socks
       /\ UNCHANGED wsRef
  ELSE /\ sockets' = Append(socks, [unit |-> u, st |-> "connecting", delay |-> 0,
                                    fresh |-> fresh])
       /\ wsRef' = Len(socks) + 1

\* Mutant: an open that leaves the retry counter alone.
onopenKeepsTries(s) ==
  /\ sockets[s].st = "connecting"
  /\ sockets' = [sockets EXCEPT ![s].st = "open"]
  /\ connected' = TRUE
  /\ delays' = <<>>
  /\ Did("onopen")
  /\ UNCHANGED <<unitId, chat, hookState, wsRef, timer, tries, appState, accepts,
                 graceRemaining, arrived>>

\* ws.onopen
onopen(s) ==
  /\ sockets[s].st = "connecting"
  /\ sockets' = [sockets EXCEPT ![s].st = "open"]
  /\ connected' = TRUE
  /\ tries' = 0
  /\ delays' = <<>>
  /\ Did("onopen")
  /\ UNCHANGED <<unitId, chat, hookState, wsRef, timer, appState, accepts, graceRemaining,
                 arrived>>

\* Mutant: an error handler that closes and also schedules a reconnect itself.
onerrorSchedules(s) ==
  /\ Live(s)
  /\ sockets' = [sockets EXCEPT ![s].st = "closing"]
  /\ delays' = Append(delays, ReconnectDelay(tries))
  /\ tries' = tries + 1
  /\ timer' = s
  /\ Did("onerror")
  /\ UNCHANGED <<unitId, chat, hookState, connected, wsRef, appState, accepts,
                 graceRemaining, arrived>>

\* ws.onerror = () => ws.close(): the socket starts closing, nothing is scheduled.
onerror(s) ==
  /\ Live(s)
  /\ sockets' = [sockets EXCEPT ![s].st = "closing"]
  /\ Did("onerror")
  /\ UNCHANGED <<unitId, chat, hookState, connected, wsRef, timer, tries, delays, appState,
                 accepts, graceRemaining, arrived>>

\* Mutant: a close that also drops the live tick.
oncloseClearsTick(s) ==
  /\ sockets[s].st \in {"connecting", "open", "closing"}
  /\ connected' = FALSE
  /\ lastMessage' = Null
  /\ LET delay == ReconnectDelay(tries)
     IN  /\ sockets' = [sockets EXCEPT ![s].st = "timer", ![s].delay = delay]
         /\ delays' = Append(delays, delay)
  /\ tries' = tries + 1
  /\ timer' = s
  /\ Did("onclose")
  /\ UNCHANGED <<unitId, chat, lastAlert, criticalEvent, streamingLogs, agentSolution,
                 wsRef, appState, accepts, graceRemaining, arrived>>

\* Mutant: a close handler that stops retrying after the second failure.
oncloseGivesUp(s) ==
  /\ sockets[s].st \in {"connecting", "open", "closing"}
  /\ connected' = FALSE
  /\ IF tries < 2
     THEN LET delay == ReconnectDelay(tries)
          IN  /\ sockets' = [sockets EXCEPT ![s].st = "timer", ![s].delay = delay]
              /\ delays' = Append(delays, delay)
              /\ timer' = s
     ELSE /\ sockets' = [sockets EXCEPT ![s] = Done]
          /\ UNCHANGED <<delays, timer>>
  /\ tries' = tries + 1
  /\ Did("onclose")
  /\ UNCHANGED <<unitId, chat, hookState, wsRef, appState, accepts, graceRemaining,
                 arrived>>

\* ws.onclose: the close event of socket s, delivered once per socket.
onclose(s) ==
  /\ sockets[s].st \in {"connecting", "open", "closing"}
  /\ connected' = FALSE
  /\ LET delay == ReconnectDelay(tries)
     IN  /\ sockets' = [sockets EXCEPT ![s].st = "timer", ![s].delay = delay]
         /\ delays' = Append(delays, delay)
  /\ tries' = tries + 1
  /\ timer' = s
  /\ Did("onclose")
  /\ UNCHANGED <<unitId, chat, hookState, wsRef, appState, accepts, graceRemaining, arrived>>

\* The timeout set by socket s's onclose fires: setTimeout(connect, delay) runs
\* the connect closure of that socket's unit.
timerFires(s) ==
  /\ sockets[s].st = "timer"
  /\ Len(sockets) < MaxSockets
  /\ connect(sockets[s].unit, [sockets EXCEPT ![s] = Done], FALSE)
  /\ Did("timer")
  /\ UNCHANGED <<unitId, chat, hookState, connected, timer, tries, delays, appState, accepts,
                 graceRemaining, arrived>>

\* The effect's cleanup: clearTimeout(timer.current); wsRef.current?.close()
cleanup(socks) ==
  [s \in DOMAIN socks |->
     IF s = timer /\ socks[s].st = "timer" THEN Done
     ELSE IF s = wsRef /\ socks[s].st \in {"connecting", "open"}
          THEN [socks[s] EXCEPT !.st = "closing"]
          ELSE socks[s]]

\* setUnitId(u) from the header: re-render, the old effect's cleanup, then the
\* effect for the new connect closure.
setUnitId(u) ==
  /\ u # unitId
  /\ Len(sockets) < MaxSockets
  /\ unitId' = u
  /\ streamingLogs' = <<>>
  /\ agentSolution' = Null
  /\ arrived' = <<>>
  /\ connect(u, cleanup(sockets), TRUE)
  /\ Did("setUnitId")
  /\ UNCHANGED <<lastMessage, lastAlert, criticalEvent, connected, timer, tries, delays,
                 appState, chat, accepts, graceRemaining>>

\* ----------------------------------------------------------- message router
\* Mutant: a router that takes a tick only when it declares a type.
RouteRequiresType(raw) ==
  IF ~raw.wellFormed THEN "throw"
  ELSE IF raw.value = Null THEN "throw"
  ELSE IF ~Has(raw.value, "type") THEN "throw"
  ELSE IF raw.value.type \in {"mcp_step", "solution", "alert", "system_resumed"}
       THEN raw.value.type
       ELSE "telemetry"

\* Mutant: a router that drops a frame whose discriminator it does not know.
RouteDropsUnknown(raw) ==
  IF ~raw.wellFormed THEN "throw"
  ELSE IF raw.value = Null THEN "throw"
  ELSE IF ~Has(raw.value, "type") THEN "telemetry"
  ELSE IF raw.value.type \in {"mcp_step", "solution", "alert", "system_resumed"}
       THEN raw.value.type
       ELSE "throw"

\* Mutant: no try/catch around JSON.parse, the failed parse read as a null tick.
RouteNoCatch(raw) ==
  IF ~raw.wellFormed THEN "telemetry"
  ELSE IF raw.value = Null THEN "throw"
  ELSE IF ~Has(raw.value, "type") THEN "telemetry"
  ELSE IF raw.value.type \in {"mcp_step", "solution", "alert", "system_resumed"}
       THEN raw.value.type
       ELSE "telemetry"

\* Where ws.onmessage sends a raw frame. JSON.parse throws on malformed text, and
\* `data.type` throws on a parsed null; the catch swallows both. Every other
\* value that is none of the four typed frames falls through to the telemetry
\* branch.
Route(raw) ==
  IF ~raw.wellFormed THEN "throw"
  ELSE IF raw.value = Null THEN "throw"
  ELSE IF ~Has(raw.value, "type") THEN "telemetry"
  ELSE IF raw.value.type = "mcp_step" THEN "mcp_step"
  ELSE IF raw.value.type = "solution" THEN "solution"
  ELSE IF raw.value.type = "alert" THEN "alert"
  ELSE IF raw.value.type = "system_resumed" THEN "system_resumed"
  ELSE "telemetry"

\* The history name of a delivered frame, read off the frame itself.
FrameOp(raw) ==
  IF ~raw.wellFormed THEN "malformed"
  ELSE IF raw.value = Null THEN "null"
  ELSE IF ~Has(raw.value, "type") THEN "telemetry"
  ELSE IF raw.value.type \in {"mcp_step", "solution", "alert", "system_resumed"}
       THEN raw.value.type
       ELSE "unrecognized"

\* Mutant: a new step is put first.
applyStepPrepends(prev, d) ==
  IF \E i \in DOMAIN prev : prev[i].step = d.step THEN prev ELSE <<d>> \o prev

\* Mutant: the reducer without its dedup check.
applyStepNoDedup(prev, d) == Append(prev, d)

\* setStreamingLogs((prev) => prev.some(s => s.step === data.step) ? prev : [...prev, data])
applyStep(prev, d) ==
  IF \E i \in DOMAIN prev : prev[i].step = d.step THEN prev ELSE Append(prev, d)

\* Mutant: only the error flag decides.
qualifiesByError(d) == Has(d, "isError") /\ d.isError

\* Mutant: every alert halts.
qualifiesAny(d) == TRUE

\* Mutant: only the severity decides.
qualifiesBySeverity(d) == Has(d, "severity") /\ d.severity = "critical"

\* data.isError || data.severity === "critical"
qualifies(d) ==
  \/ Has(d, "isError") /\ d.isError
  \/ Has(d, "severity") /\ d.severity = "critical"

\* Object spread { ...prev, ...d }: the fields of d over those of prev.
Spread(prev, d) ==
  IF prev = Null THEN d
  ELSE [f \in DOMAIN prev \cup DOMAIN d |-> IF f \in DOMAIN d THEN d[f] ELSE prev[f]]

\* Mutant: a solution frame is merged into the solution already held.
onmessageMerges(s, raw) ==
  /\ sockets[s].st = "open"
  /\ LET d    == raw.value
         kind == Route(raw)
     IN  /\ kind = "mcp_step" => Len(arrived) < MaxArrivals
         /\ lastMessage' =
              IF kind = "system_resumed" THEN Null
              ELSE IF kind = "telemetry" THEN d
              ELSE lastMessage
         /\ lastAlert' = IF kind = "alert" THEN d ELSE lastAlert
         /\ criticalEvent' =
              IF kind = "alert" /\ qualifies(d) THEN d
              ELSE IF kind = "system_resumed" THEN Null
              ELSE criticalEvent
         /\ streamingLogs' =
              IF kind = "mcp_step" THEN applyStep(streamingLogs, d)
              ELSE IF kind = "system_resumed" THEN <<>>
              ELSE streamingLogs
         /\ agentSolution' =
              IF kind = "solution" THEN Spread(agentSolution, d)
              ELSE IF kind = "system_resumed" THEN Null
              ELSE agentSolution
         /\ arrived' =
              IF kind = "mcp_step" THEN Append(arrived, d.step)
              ELSE IF kind = "system_resumed" THEN <<>>
              ELSE arrived
  /\ lastOp' = FrameOp(raw)
  /\ lastFrame' = raw
  /\ UNCHANGED <<unitId, chat, connState, appState, accepts, graceRemaining>>

\* Mutant: the alert branch without its return, so the alert also becomes the
\* live tick.
onmessageFallsThrough(s, raw) ==
  /\ sockets[s].st = "open"
  /\ LET d    == raw.value
         kind == Route(raw)
     IN  /\ kind = "mcp_step" => Len(arrived) < MaxArrivals
         /\ lastMessage' =
              IF kind = "system_resumed" THEN Null
              ELSE IF kind \in {"telemetry", "alert"} THEN d
              ELSE lastMessage
         /\ lastAlert' = IF kind = "alert" THEN d ELSE lastAlert
         /\ criticalEvent' =
              IF kind = "alert" /\ qualifies(d) THEN d
              ELSE IF kind = "system_resumed" THEN Null
              ELSE criticalEvent
         /\ streamingLogs' =
              IF kind = "mcp_step" THEN applyStep(streamingLogs, d)
              ELSE IF kind = "system_resumed" THEN <<>>
              ELSE streamingLogs
         /\ agentSolution' =
              IF kind = "solution" THEN d
              ELSE IF kind = "system_resumed" THEN Null
              ELSE agentSolution
         /\ arrived' =
              IF kind = "mcp_step" THEN Append(arrived, d.step)
              ELSE IF kind = "system_resumed" THEN <<>>
              ELSE arrived
  /\ lastOp' = FrameOp(raw)
  /\ lastFrame' = raw
  /\ UNCHANGED <<unitId, chat, connState, appState, accepts, graceRemaining>>

\* ws.onmessage of socket s: one frame, handled to the end.
onmessage(s, raw) ==
  /\ sockets[s].st = "open"
  /\ LET d    == raw.value
         kind == Route(raw)
     IN  /\ kind = "mcp_step" => Len(arrived) < MaxArrivals
         /\ lastMessage' =
              IF kind = "system_resumed" THEN Null
              ELSE IF kind = "telemetry" THEN d
              ELSE lastMessage
         /\ lastAlert' = IF kind = "alert" THEN d ELSE lastAlert
         /\ criticalEvent' =
              IF kind = "alert" /\ qualifies(d) THEN d
              ELSE IF kind = "system_resumed" THEN Null
              ELSE criticalEvent
         /\ streamingLogs' =
              IF kind = "mcp_step" THEN applyStep(streamingLogs, d)
              ELSE IF kind = "system_resumed" THEN <<>>
              ELSE streamingLogs
         /\ agentSolution' =
              IF kind = "solution" THEN d
              ELSE IF kind = "system_resumed" THEN Null
              ELSE agentSolution
         /\ arrived' =
              IF kind = "mcp_step" THEN Append(arrived, d.step)
              ELSE IF kind = "system_resumed" THEN <<>>
              ELSE arrived
  /\ lastOp' = FrameOp(raw)
  /\ lastFrame' = raw
  /\ UNCHANGED <<unitId, chat, connState, appState, accepts, graceRemaining>>

\* ------------------------------------------------------------------- App
\* Mutant: no fallback to the orchestration snapshot.
statusIgnoresSnapshot ==
  IF Has(lastMessage, "unit_status") THEN lastMessage.unit_status
  ELSE "IDLE"

\* Mutant: the orchestration snapshot wins over the live tick.
statusPrefersSnapshot ==
  IF Has(data, "status") THEN data.status
  ELSE IF Has(lastMessage, "unit_status") THEN lastMessage.unit_status
  ELSE "IDLE"

\* const status = liveTel?.unit_status ?? data?.status ?? "IDLE"
status ==
  IF Has(lastMessage, "unit_status") THEN lastMessage.unit_status
  ELSE IF Has(data, "status") THEN data.status
  ELSE "IDLE"

\* CriticalOverlay props and what it derives from them.
visible  == criticalEvent # Null
telemetry == IF criticalEvent # Null THEN criticalEvent ELSE lastMessage
decision == Has(agentSolution, "decision")

\* Mutant: solving stays set once a step or a solution is held.
solvingSticky == Len(streamingLogs) > 0 \/ agentSolution # Null

\* const solving = streamingLogs?.length > 0 && !decision
solving == Len(streamingLogs) > 0 /\ ~decision

\* runOrchestration up to its await, as the closure made for unit u: the request
\* for u is issued.
runOrchestrationOf(u) ==
  /\ Len(runs) < MaxRuns
  /\ started < MaxStarted
  /\ loading' = TRUE
  /\ error' = Null
  /\ runs' = Append(runs, u)
  /\ started' = started + 1

\* The closure of the current render.
runOrchestration == runOrchestrationOf(unitId)

\* Mutant: a dismissal that clears the halt and the snapshot only.
handleDismissKeepsRun ==
  /\ data' = Null
  /\ criticalEvent' = Null
  /\ UNCHANGED <<agentSolution, streamingLogs, arrived>>

\* handleDismissOverlay
handleDismissOverlay ==
  /\ data' = Null
  /\ criticalEvent' = Null
  /\ agentSolution' = Null
  /\ streamingLogs' = <<>>
  /\ arrived' = <<>>

\* The header's ORCHESTRATE button (disabled while loading).
onRun ==
  /\ ~loading
  /\ runOrchestration
  /\ Did("onRun")
  /\ UNCHANGED <<unitId, chat, hookState, connState, data, accepts, graceRemaining, arrived>>

Remove(q, i) == [j \in 1..(Len(q) - 1) |-> IF j < i THEN q[j] ELSE q[j + 1]]

\* Mutant: a failed request also drops the snapshot held before it.
runSettlesDropsSnapshot(i, ok, st) ==
  /\ i \in DOMAIN runs
  /\ runs' = Remove(runs, i)
  /\ IF ok
     THEN /\ data' = [unit_id |-> runs[i], status |-> st]
          /\ UNCHANGED error
     ELSE /\ error' = [message |-> "API 500"]
          /\ data' = Null
  /\ loading' = FALSE
  /\ Did(IF ok THEN "runOk" ELSE "runFailed")
  /\ UNCHANGED <<unitId, chat, hookState, connState, accepts, graceRemaining, started,
                 arrived>>

\* The rest of runOrchestration: request i settles with a 2xx snapshot
\* (res.ok, a status), or fails (non-2xx or a network error).
runSettles(i, ok, st) ==
  /\ i \in DOMAIN runs
  /\ runs' = Remove(runs, i)
  /\ IF ok
     THEN /\ data' = [unit_id |-> runs[i], status |-> st]
          /\ UNCHANGED error
     ELSE /\ error' = [message |-> "API 500"]
          /\ UNCHANGED data
  /\ loading' = FALSE
  /\ Did(IF ok THEN "runOk" ELSE "runFailed")
  /\ UNCHANGED <<unitId, chat, hookState, connState, accepts, graceRemaining, started,
                 arrived>>

\* The overlay's X and Acknowledge buttons: onDismiss.
onDismiss ==
  /\ visible
  /\ handleDismissOverlay
  /\ Did("onDismiss")
  /\ UNCHANGED <<unitId, chat, lastMessage, lastAlert, connState, loading, error, runs,
                 started, accepts, graceRemaining>>

\* The overlay's Run Orchestration button: onOrchestrate?.(); onDismiss()
onOrchestrate ==
  /\ visible /\ ~decision /\ ~solving
  /\ runOrchestration
  /\ handleDismissOverlay
  /\ Did("onOrchestrate")
  /\ UNCHANGED <<unitId, chat, lastMessage, lastAlert, connState, accepts, graceRemaining>>

\* handleAccept up to its await: POST /api/system-resume is issued. The client
\* holds no grace deadline: the handler writes no client state at all here.
handleAccept ==
  /\ visible /\ decision
  /\ accepts < MaxPending
  /\ accepts' = accepts + 1
  /\ Did("handleAccept")
  /\ UNCHANGED <<unitId, chat, hookState, connState, appState, arrived>>

\* The grace deadline resume() sets: now + 30 seconds.
graceDeadline == GraceSeconds

\* resume(): the operator's accept together with the grace window of the
\* incident state store, which is kept outside the client code. The deadline is
\* set at the call, whatever becomes of the request.
resume ==
  /\ handleAccept
  /\ graceRemaining' = graceDeadline

\* Mutant: a failed resume request leaves the overlay up.
acceptSettlesStrict(res) ==
  /\ accepts > 0
  /\ accepts' = accepts - 1
  /\ IF res = "ok"
     THEN handleDismissOverlay
     ELSE UNCHANGED <<data, criticalEvent, agentSolution, streamingLogs, arrived>>
  /\ Did(IF res = "ok" THEN "accepted" ELSE "resumeFailed")
  /\ UNCHANGED <<unitId, chat, lastMessage, lastAlert, connState, loading, error, runs,
                 started, graceRemaining>>

\* The rest of handleAccept: the request settles (ok, non-2xx or network error,
\* the last two only logged) and onDismiss() runs.
acceptSettles(res) ==
  /\ accepts > 0
  /\ accepts' = accepts - 1
  /\ handleDismissOverlay
  /\ Did(IF res = "ok" THEN "accepted" ELSE "resumeFailed")
  /\ UNCHANGED <<unitId, chat, lastMessage, lastAlert, connState, loading, error, runs,
                 started, graceRemaining>>

\* Mutant: a deadline that has passed stays set.
graceAfterKept(left, dt) == IF left > dt THEN left - dt ELSE left

\* Time passes; a deadline that has passed is cleared.
graceAfter(left, dt) == IF left > dt THEN left - dt ELSE 0

tick ==
  /\ graceRemaining > 0
  /\ graceRemaining' = graceAfter(graceRemaining, TickSeconds)
  /\ Did("tick")
  /\ UNCHANGED <<unitId, chat, hookState, connState, appState, accepts, arrived>>

\* The state of the incident lifecycle: halted while the overlay is up, in the
\* grace window while a deadline is set, healthy otherwise.
phase ==
  IF visible THEN "HALTED"
  ELSE IF graceRemaining > 0 THEN "GRACE"
  ELSE "HEALTHY"

\* -------------------------------------------------------------- ChatPanel
\* Mutant: an override handler that starts nothing.
handleOverrideIgnored(u) == UNCHANGED <<loading, error, runs, started>>

\* handleOverride, as the closure made for unit u: runOrchestration().
handleOverride(u) == runOrchestrationOf(u)

\* What POST /chat can come back with: a 2xx body {reply, override_active}, a
\* 2xx body without the flag, a non-2xx error body without or with the flag, or
\* nothing that parses (fetch rejected, or res.json() threw).
ChatReplies ==
  { [threw |-> FALSE, ok |-> TRUE, body |-> [reply |-> "text", override_active |-> b]]
      : b \in BOOLEAN }
  \cup { [threw |-> FALSE, ok |-> TRUE, body |-> [reply |-> "text"]],
         [threw |-> FALSE, ok |-> FALSE, body |-> [detail |-> "error"]],
         [threw |-> FALSE, ok |-> FALSE,
          body |-> [detail |-> "error", override_active |-> TRUE]],
         [threw |-> TRUE, ok |-> FALSE, body |-> Null] }

\* History name of a chat outcome, by the branch of send() that handles it:
\* the catch block, the data.override_active branch, or its else branch. The
\* HTTP status (res.ok) is not looked at.
ChatOp(res) ==
  IF res.threw THEN "chatFailed"
  ELSE IF Has(res.body, "override_active") /\ res.body.override_active THEN "chatOverride"
  ELSE "chatReply"

\* send() up to its await: a non-empty message, not already sending.
send ==
  /\ chat = ""
  /\ chat' = unitId
  /\ Did("send")
  /\ UNCHANGED <<unitId, hookState, connState, appState, accepts, graceRemaining, arrived>>

\* The rest of send(): the reply is read (res.ok is not looked at), the override
\* flag calls onOverride of the render that sent, and sending ends.
chatSettles(res) ==
  /\ chat # ""
  /\ chat' = ""
  /\ IF ~res.threw /\ Has(res.body, "override_active") /\ res.body.override_active
     THEN handleOverride(chat)
     ELSE UNCHANGED <<loading, error, runs, started>>
  /\ lastOp' = ChatOp(res)
  /\ lastFrame' = NoFrame
  /\ UNCHANGED <<unitId, hookState, connState, data, accepts, graceRemaining, arrived>>

\* -------------------------------------------------------------------- init
\* The state after the first render and its effect: connect() has been called.
Init ==
  /\ unitId = "ENGINE-001"
  /\ lastMessage = Null
  /\ lastAlert = Null
  /\ connected = FALSE
  /\ criticalEvent = Null
  /\ streamingLogs = <<>>
  /\ agentSolution = Null
  /\ wsRef = 1
  /\ timer = 0
  /\ tries = 0
  /\ sockets = <<[unit |-> "ENGINE-001", st |-> "connecting", delay |-> 0,
                  fresh |-> TRUE]>>
  /\ data = Null
  /\ loading = FALSE
  /\ error = Null
  /\ runs = <<>>
  /\ chat = ""
  /\ accepts = 0
  /\ graceRemaining = 0
  /\ started = 0
  /\ arrived = <<>>
  /\ delays = <<>>
  /\ lastOp = "init"
  /\ lastFrame = NoFrame

ConnNext ==
  \/ \E s \in DOMAIN sockets : onopen(s)
  \/ \E s \in DOMAIN sockets : onerror(s)
  \/ \E s \in DOMAIN sockets : onclose(s)
  \/ \E s \in DOMAIN sockets : timerFires(s)
  \/ \E u \in Units : setUnitId(u)

\* The message router on one connection: every kind of frame, and the overlay's
\* dismissal as the other way the timeline is reset.
RouterNext ==
  \/ \E s \in DOMAIN sockets : onopen(s)
  \/ \E s \in DOMAIN sockets : \E raw \in RawFrames(sockets[s].unit) : onmessage(s, raw)
  \/ onDismiss

SpecRouter == Init /\ [][RouterNext]_vars

\* The frames of one incident: a healthy and a critical tick, a critical alert,
\* one step (redelivered at will), a solution, and the resume broadcast.
IncidentFrames(u) ==
  { [wellFormed |-> TRUE, value |-> v] :
      v \in { t \in Ticks(u) : t.cycle = 1 }
            \cup { [type |-> "alert", unit_id |-> u, severity |-> "critical",
                    isError |-> TRUE] }
            \cup { st \in Steps : st.step = 1 }
            \cup { so \in Solutions : so.decision.action = 1 }
            \cup { Resumed } }

\* The incident lifecycle on one connection: frames, operator actions, REST
\* calls and the passage of time.
IncidentNext ==
  \/ \E s \in DOMAIN sockets : onopen(s)
  \/ \E s \in DOMAIN sockets : \E raw \in IncidentFrames(sockets[s].unit) : onmessage(s, raw)
  \/ onRun
  \/ \E i \in 1..MaxRuns, ok \in BOOLEAN, st \in Statuses : runSettles(i, ok, st)
  \/ onDismiss
  \/ onOrchestrate
  \/ resume
  \/ \E res \in {"ok", "not_ok", "network_error"} : acceptSettles(res)
  \/ tick

SpecIncident == Init /\ [][IncidentNext]_vars

\* The resume and its grace window on one connection: frames, orchestration
\* snapshots, the operator's accept and the passage of time. Time does pass:
\* a tick that stays possible is eventually taken.
GraceNext ==
  \/ \E s \in DOMAIN sockets : onopen(s)
  \/ \E s \in DOMAIN sockets : \E raw \in IncidentFrames(sockets[s].unit) : onmessage(s, raw)
  \/ onRun
  \/ \E i \in 1..MaxRuns, ok \in BOOLEAN, st \in Statuses : runSettles(i, ok, st)
  \/ resume
  \/ \E res \in {"ok", "not_ok", "network_error"} : acceptSettles(res)
  \/ tick

SpecGrace == Init /\ [][GraceNext]_vars /\ WF_vars(tick)

\* The frames of a remediation: a critical alert, the steps, solutions with a
\* decision and one without, and the resume broadcast.
SolutionFrames(u) ==
  { [wellFormed |-> TRUE, value |-> v] :
      v \in { [type |-> "alert", unit_id |-> u, severity |-> "critical",
               isError |-> TRUE] }
            \cup Steps \cup Solutions \cup { [type |-> "solution"], Resumed } }

\* The overlay's content on one connection: steps and solutions arriving during
\* an incident, and its dismissal.
SolutionNext ==
  \/ \E s \in DOMAIN sockets : onopen(s)
  \/ \E s \in DOMAIN sockets : \E raw \in SolutionFrames(sockets[s].unit) : onmessage(s, raw)
  \/ onDismiss

SpecSolution == Init /\ [][SolutionNext]_vars

\* An incident's frames on a connection that is lost and re-established, the
\* unit staying selected.
OutageNext ==
  \/ \E s \in DOMAIN sockets : onopen(s)
  \/ \E s \in DOMAIN sockets : onerror(s)
  \/ \E s \in DOMAIN sockets : onclose(s)
  \/ \E s \in DOMAIN sockets : timerFires(s)
  \/ \E s \in DOMAIN sockets : \E raw \in IncidentFrames(sockets[s].unit) : onmessage(s, raw)

SpecOutage == Init /\ [][OutageNext]_vars

\* The frames that fill and empty the timeline during an incident.
TimelineFrames(u) ==
  { [wellFormed |-> TRUE, value |-> v] :
      v \in { [type |-> "alert", unit_id |-> u, severity |-> "critical",
               isError |-> TRUE] }
            \cup Steps
            \cup { so \in Solutions : so.decision.action = 1 }
            \cup { Resumed } }

\* The timeline and everything that resets it: the steps of a remediation, the
\* resume broadcast, the overlay's dismissal and acceptance, and a unit change.
TimelineNext ==
  \/ \E s \in DOMAIN sockets : onopen(s)
  \/ \E s \in DOMAIN sockets : \E raw \in TimelineFrames(sockets[s].unit) : onmessage(s, raw)
  \/ onDismiss
  \/ resume
  \/ \E res \in {"ok", "network_error"} : acceptSettles(res)
  \/ \E u \in Units : setUnitId(u)

SpecTimeline == Init /\ [][TimelineNext]_vars

\* A unit switch with the stream and the orchestration request around it: one
\* tick, one critical alert, one step and one solution per unit.
SwitchFrames(u) ==
  { [wellFormed |-> TRUE, value |-> v] :
      v \in { t \in Ticks(u) : t.cycle = 1 /\ t.unit_status = "HEALTHY" }
            \cup { [type |-> "alert", unit_id |-> u, severity |-> "critical",
                    isError |-> TRUE] }
            \cup { st \in Steps : st.step = 1 }
            \cup { so \in Solutions : so.decision.action = 1 } }

SwitchNext ==
  \/ \E s \in DOMAIN sockets : onopen(s)
  \/ \E s \in DOMAIN sockets : \E raw \in SwitchFrames(sockets[s].unit) : onmessage(s, raw)
  \/ \E u \in Units : setUnitId(u)
  \/ onRun
  \/ \E i \in 1..MaxRuns, ok \in BOOLEAN : runSettles(i, ok, "CRITICAL")

SpecSwitch == Init /\ [][SwitchNext]_vars

\* The step events of orchestration run r: the same identifiers in every run,
\* the event text that of the run.
RunSteps(r) ==
  { [type |-> "mcp_step", step |-> i, agent |-> "Watchman", event |-> r]
      : i \in 1..MaxStepId }

\* Orchestration runs and what starts them: the header button, the chat
\* override, and the step events of the runs started so far.
RunNext ==
  \/ \E s \in DOMAIN sockets : onopen(s)
  \/ \E s \in DOMAIN sockets : \E r \in 1..started : \E d \in RunSteps(r) :
        onmessage(s, [wellFormed |-> TRUE, value |-> d])
  \/ onRun
  \/ \E i \in 1..MaxRuns, ok \in BOOLEAN : runSettles(i, ok, "CRITICAL")
  \/ send
  \/ \E res \in ChatReplies : chatSettles(res)

SpecRuns == Init /\ [][RunNext]_vars

\* One session that is never torn down: its sockets, its timers and the ticks
\* it receives.
SessionNext ==
  \/ \E s \in DOMAIN sockets : onopen(s)
  \/ \E s \in DOMAIN sockets : onerror(s)
  \/ \E s \in DOMAIN sockets : onclose(s)
  \/ \E s \in DOMAIN sockets : timerFires(s)
  \/ \E s \in DOMAIN sockets : \E t \in Ticks(sockets[s].unit) :
        onmessage(s, [wellFormed |-> TRUE, value |-> t])

\* Fairness: a timeout that is set fires; a socket that is closing delivers its
\* close event; a connection attempt that is not failed succeeds.
SpecSession ==
  /\ Init
  /\ [][SessionNext]_vars
  /\ WF_vars(\E s \in DOMAIN sockets : timerFires(s))
  /\ WF_vars(\E s \in DOMAIN sockets : sockets[s].st = "closing" /\ onclose(s))
  /\ WF_vars(\E s \in DOMAIN sockets : onopen(s))

Next ==
  \/ ConnNext \/ RouterNext \/ IncidentNext \/ SwitchNext \/ RunNext \/ SessionNext
  \/ SolutionNext \/ OutageNext \/ TimelineNext \/ GraceNext

Spec == Init /\ [][Next]_vars

\* The connection manager alone: opens, errors, closes, timers and unit switches.
SpecConn == Init /\ [][ConnNext]_vars


\* ------------------------------------------------------------------ claims
RECURSIVE FirstArrivals(_)
\* The identifiers of a sequence, each once, in the order of first occurrence.
FirstArrivals(ids) ==
  IF ids = <<>> THEN <<>>
  ELSE LET front == FirstArrivals(SubSeq(ids, 1, Len(ids) - 1))
           x     == ids[Len(ids)]
       IN  IF \E i \in DOMAIN front : front[i] = x THEN front ELSE Append(front, x)

\* The unit a held value was received for, if it names one.
ForCurrentUnit(o) == Has(o, "unit_id") => o.unit_id = unitId

\* C11: no held session value that names a unit (live tick, last alert, frozen
\* snapshot, orchestration snapshot) names a unit other than the selected one.
C11_NoCrossUnitState ==
  /\ ForCurrentUnit(lastMessage)
  /\ ForCurrentUnit(lastAlert)
  /\ ForCurrentUnit(criticalEvent)
  /\ ForCurrentUnit(data)

\* C12: every pending reconnect timer, and every socket that is connecting or
\* open, belongs to the session of the selected unit: a session torn down by a
\* unit change leaves no timer behind and opens no socket.
C12_NoTimerAfterTeardown ==
  \A s \in DOMAIN sockets :
    sockets[s].st \in {"timer", "connecting", "open"} => sockets[s].unit = unitId

\* C13: at most one socket is connecting or open.
C13_OneLiveSocket == Cardinality({ s \in DOMAIN sockets : Live(s) }) <= 1

\* The sockets whose reconnect timeout the step sets.
NewlyScheduled == { s \in DOMAIN sockets : sockets[s].st # "timer" /\ sockets'[s].st = "timer" }

\* C14: an error schedules nothing and leaves the retry counter alone; a close
\* event sets exactly one timeout and adds exactly one to the counter; a socket
\* whose close event has run never has another.
C14_OneSchedulePerSocket ==
  [][ /\ lastOp' = "onerror" =>
           /\ NewlyScheduled = {}
           /\ UNCHANGED <<tries, timer, delays>>
      /\ lastOp' = "onclose" =>
           /\ Cardinality(NewlyScheduled) = 1
           /\ tries' = tries + 1
           /\ Len(delays') = Len(delays) + 1
      /\ \A s \in DOMAIN sockets :
           sockets[s].st \in {"timer", "done"} => sockets'[s].st \in {"timer", "done"} ]_vars

\* A socket has errored after an earlier one closed: still one retry counted.
C14_Witness ==
  /\ lastOp = "onerror"
  /\ tries = 1
  /\ Len(delays) = 1
  /\ \E s \in DOMAIN sockets : sockets[s].st = "closing"

\* C15: in a session that is not torn down, a close always leaves its reconnect
\* timeout pending, whatever the retry count; some socket or timeout of the
\* session is always alive; and whenever connected is false it becomes true
\* again, unless every socket the bound allows has been used up by failures.
C15_AlwaysReconnects ==
  /\ [](lastOp = "onclose" => timer \in DOMAIN sockets /\ sockets[timer].st = "timer")
  /\ [](\E s \in DOMAIN sockets : sockets[s].st \in {"connecting", "open", "closing", "timer"})
  /\ (~connected ~> (connected \/ Len(sockets) = MaxSockets))

\* Connected again on a later socket, after an earlier one closed.
C15_Witness ==
  /\ connected
  /\ lastOp = "onopen"
  /\ Len(sockets) >= 3
  /\ \A s \in 1..(Len(sockets) - 1) : sockets[s].st = "done"

\* C16: the derived status is the live tick's unit_status when the tick held
\* carries one, else the orchestration snapshot's status when one is held, else
\* IDLE.
C16_StatusFallback ==
  /\ Has(lastMessage, "unit_status") => status = lastMessage.unit_status
  /\ ~Has(lastMessage, "unit_status") /\ Has(data, "status") => status = data.status
  /\ ~Has(lastMessage, "unit_status") /\ ~Has(data, "status") => status = "IDLE"

\* A live status and a different snapshot status are both held; the live one shows.
C16_Witness ==
  /\ Has(lastMessage, "unit_status")
  /\ Has(data, "status")
  /\ lastMessage.unit_status # data.status
  /\ status = lastMessage.unit_status

\* C17: the timeline holds steps of one run only, and a step of the newest run
\* that was just delivered is in the timeline.
C17_TimelineOfOneRun ==
  /\ \A i, j \in DOMAIN streamingLogs :
       Has(streamingLogs[i], "event") /\ Has(streamingLogs[j], "event")
         => streamingLogs[i].event = streamingLogs[j].event
  /\ lastOp = "mcp_step" /\ Has(lastFrame.value, "event") /\ lastFrame.value.event = started
       => \E i \in DOMAIN streamingLogs : streamingLogs[i] = lastFrame.value

\* C18: a chat reply that declares override_active issues exactly one
\* orchestration request, with the effects of runOrchestration (loading set,
\* error cleared, the request for the sender's unit in flight); any other chat
\* outcome (a reply or error body without the flag, a failed request) issues
\* none and leaves the run state alone.
C18_OverrideStartsOneRun ==
  [][ /\ lastOp' = "chatOverride" =>
           /\ started' = started + 1
           /\ runs' = Append(runs, chat)
           /\ loading' = TRUE
           /\ error' = Null
      /\ lastOp' \in {"chatReply", "chatFailed"} =>
           UNCHANGED <<started, runs, loading, error, data>> ]_vars

\* An override reply has started a run while another request was in flight.
C18_Witness ==
  /\ lastOp = "chatOverride"
  /\ Len(runs) = 2
  /\ loading
  /\ chat = ""

\* C19: when an orchestration request fails, the error is set, loading is
\* false, and the live tick, the last alert, the halt and its frozen snapshot,
\* the timeline, the solution and the orchestration snapshot are as before.
C19_RunFailureSurfaced ==
  [][ lastOp' = "runFailed" =>
        /\ error' # Null
        /\ loading' = FALSE
        /\ UNCHANGED <<hookState, data>> ]_vars

\* A request has failed while a snapshot, a halt and a timeline were held.
C19_Witness ==
  /\ lastOp = "runFailed"
  /\ error # Null
  /\ ~loading
  /\ data # Null
  /\ criticalEvent # Null
  /\ Len(streamingLogs) > 0

\* C20: when the resume request fails (non-2xx or network error) the local
\* transition still completes: the halt and its frozen snapshot are cleared, the
\* request is no longer pending, and the failure is not put in the error shown
\* to the operator.
C20_ResumeFailureStillClears ==
  [][ lastOp' = "resumeFailed" =>
        /\ criticalEvent' = Null
        /\ ~visible'
        /\ accepts' = accepts - 1
        /\ UNCHANGED <<error, loading>> ]_vars

\* A resume request has failed after a halt with a solution, and the overlay is
\* down with no error shown.
C20_Witness ==
  /\ lastOp = "resumeFailed"
  /\ qualifies(lastAlert)
  /\ ~visible
  /\ error = Null
  /\ accepts = 0

\* C1: whatever mcp_step frames (repeats included) were applied since the last
\* reset, the timeline holds each step identifier exactly once, in the order of
\* first arrival.
C1_TimelineDedup ==
  [i \in DOMAIN streamingLogs |-> streamingLogs[i].step] = FirstArrivals(arrived)

\* C1 witness: a redelivered identifier among two distinct ones.
C1_Witness ==
  /\ lastOp = "mcp_step"
  /\ Len(streamingLogs) = 2
  /\ Len(arrived) = 3

\* The backoff schedule as the specification lists it.
Schedule(i) == IF i <= 4 THEN <<2000, 4000, 8000, 16000>>[i] ELSE 30000

\* C2: the delays scheduled by consecutive closes with no open in between,
\* starting from retryCount = 0, are 2000, 4000, 8000, 16000, 30000, 30000, ...
\* and none exceeds 30000.
C2_BackoffSchedule ==
  /\ Len(delays) = tries
  /\ \A i \in DOMAIN delays : delays[i] = Schedule(i) /\ delays[i] <= 30000

\* C2 witness: five closes in a row, the fifth one capped.
C2_Witness ==
  /\ lastOp = "onclose"
  /\ Len(delays) = 5
  /\ delays[5] = 30000

\* C9: a successful open resets the retry counter to 0 and sets connected, so the
\* first close after an open schedules its reconnect with the base delay.
C9_OpenResetsRetry ==
  /\ lastOp = "onopen" => tries = 0 /\ connected
  /\ delays # <<>> => delays[1] = BaseDelay

\* C9 witness: two failed attempts, then a successful open, then a close.
C9_Witness ==
  /\ lastOp = "onclose"
  /\ unitId = "ENGINE-001"
  /\ Len(sockets) = 3
  /\ sockets[1] = Done /\ sockets[2] = Done
  /\ sockets[3].st = "timer"
  /\ delays = <<BaseDelay>>

\* C10: after a unit switch the first close of the new unit's connection
\* schedules its reconnect after 2000 ms, whatever the previous unit accumulated.
C10_SwitchResetsRetry ==
  \A s \in DOMAIN sockets :
    sockets[s].fresh /\ sockets[s].st = "timer" => sockets[s].delay = BaseDelay

\* What the overlay shows of its telemetry prop; a field the value lacks is <<>>.
SnapshotFields == {"unit_id", "cycle", "rul"}
Shown(o) == [f \in SnapshotFields |-> IF Has(o, f) THEN <<o[f]>> ELSE <<>>]
CarriesTelemetry(o) == \A f \in SnapshotFields : Has(o, f)

\* C3 as claimed: after a qualifying alert the frozen snapshot shows the telemetry
\* present at trigger time, the held live tick when the alert carries none; and
\* telemetry frames that arrive while halted leave it unchanged.
C3_FrozenIsTriggerTelemetry ==
  [][ /\ (lastOp' = "alert" /\ qualifies(lastAlert') /\ CarriesTelemetry(lastMessage)) =>
            /\ visible'
            /\ Shown(telemetry') =
                 Shown(IF CarriesTelemetry(lastAlert') THEN lastAlert' ELSE lastMessage)
      /\ (lastOp' \in {"telemetry", "unrecognized"} /\ visible) =>
            visible' /\ telemetry' = telemetry ]_vars

\* C3 amended: after a qualifying alert, halted is true and the frozen snapshot is
\* the alert frame's own payload; telemetry frames that arrive while halted leave
\* it unchanged.
C3_FrozenIsAlertPayload ==
  [][ /\ ( /\ lastOp' = "alert"
           /\ \/ Has(lastFrame'.value, "isError") /\ lastFrame'.value.isError
              \/ lastFrame'.value.severity = "critical" ) =>
            visible' /\ telemetry' = lastFrame'.value
      /\ (lastOp' \in {"telemetry", "unrecognized"} /\ visible) =>
            visible' /\ telemetry' = telemetry ]_vars

\* C3 witness: halted on an alert that carries no telemetry, by its error flag
\* alone, with a later live tick held beside the frozen snapshot.
C3_Witness ==
  /\ lastOp = "telemetry"
  /\ visible
  /\ criticalEvent.severity = "info"
  /\ ~Has(criticalEvent, "rul")
  /\ Has(lastMessage, "rul")

\* C4: right after a system_resumed frame: not halted, no frozen snapshot, empty
\* timeline, no solution, no live tick, and the derived status is IDLE.
C4_ResumedResets ==
  lastOp = "system_resumed" =>
    /\ ~visible
    /\ criticalEvent = Null
    /\ streamingLogs = <<>>
    /\ agentSolution = Null
    /\ lastMessage = Null
    /\ status = "IDLE"

\* C5 as claimed: when the accepted resume completes, halted becomes false while
\* the timeline and the held solution stay as they were.
C5_AcceptKeepsRun ==
  [][ lastOp' = "accepted" =>
        /\ ~visible'
        /\ streamingLogs' = streamingLogs
        /\ agentSolution' = agentSolution ]_vars

\* C5 amended: when the accepted resume completes, halted becomes false and the
\* timeline, the held solution and the orchestration snapshot are cleared by
\* that same action.
C5_AcceptClears ==
  lastOp = "accepted" =>
    /\ ~visible
    /\ streamingLogs = <<>>
    /\ agentSolution = Null
    /\ data = Null

\* C5 witness: an accepted resume has completed after an incident.
C5_Witness ==
  /\ lastOp = "accepted"
  /\ lastAlert # Null
  /\ ~visible
  /\ agentSolution = Null

C7_UnknownDropped ==
  [][ lastOp' = "unrecognized" => UNCHANGED <<hookState, connState, appState>> ]_vars

\* C7 amended: a parsed frame whose discriminator is missing or unrecognized is
\* handled as a telemetry tick: it replaces the live tick and changes nothing
\* else; a parsed null is dropped.
C7_UnknownIsTelemetry ==
  [][ /\ lastOp' \in {"telemetry", "unrecognized"} =>
            /\ lastMessage' = lastFrame'.value
            /\ UNCHANGED <<lastAlert, criticalEvent, streamingLogs, agentSolution,
                           connState, appState>>
      /\ lastOp' = "null" => UNCHANGED <<hookState, connState, appState>> ]_vars

\* C7 witness: the unrecognized frame is held as the live tick.
C7_Witness ==
  /\ lastOp = "unrecognized"
  /\ lastMessage = Unknown
  /\ lastAlert # Null

\* C8: a frame that fails to parse changes nothing: live tick, last alert, halt
\* and frozen snapshot, timeline, solution, and the connection (connected flag,
\* retry counter, timer, socket) stay as they were.
C8_MalformedDropped ==
  [][ (lastOp' = "malformed" /\ ~lastFrame'.wellFormed) =>
        UNCHANGED <<hookState, connState, appState, unitId>> ]_vars

\* C8 witness: a malformed frame arrived in the middle of an incident.
C8_Witness ==
  /\ lastOp = "malformed"
  /\ connected
  /\ lastMessage # Null
  /\ visible
  /\ streamingLogs # <<>>
  /\ agentSolution # Null

\* A frame that reports a critical unit: unit_status CRITICAL or isError true.
ReportsCritical(raw) ==
  /\ Has(raw, "wellFormed") /\ raw.wellFormed
  /\ \/ Has(raw.value, "unit_status") /\ raw.value.unit_status = "CRITICAL"
     \/ Has(raw.value, "isError") /\ raw.value.isError

\* C21 as claimed: after a frame that reports unit_status CRITICAL or isError
\* true has been handled, the critical overlay is visible.
C21_OverlayOnCritical == ReportsCritical(lastFrame) => visible

\* C22: while the unit is not halted, a telemetry frame never lowers the cycle
\* number of the displayed live tick.
C22_CycleNeverRegresses ==
  [][ ( /\ lastOp' = "telemetry"
        /\ ~visible /\ ~visible'
        /\ Has(lastMessage, "cycle") /\ Has(lastMessage', "cycle") )
      => lastMessage'.cycle >= lastMessage.cycle ]_vars

\* An alert payload whose severity is critical or whose error flag is set.
CriticalOrError(d) ==
  \/ Has(d, "severity") /\ d.severity = "critical"
  \/ Has(d, "isError") /\ d.isError = TRUE

\* C23: a telemetry frame (whatever its unit_status or rul) and an alert that is
\* neither critical nor flagged as an error leave the halt and its frozen
\* snapshot as they were; the halt is entered only by an alert that is critical
\* or flagged.
C23_EntryOnlyByQualifyingAlert ==
  [][ /\ lastOp' \in {"telemetry", "unrecognized"} => criticalEvent' = criticalEvent
      /\ (lastOp' = "alert" /\ ~CriticalOrError(lastFrame'.value))
           => criticalEvent' = criticalEvent
      /\ (criticalEvent = Null /\ criticalEvent' # Null)
           => lastOp' = "alert" /\ CriticalOrError(lastFrame'.value) ]_vars

\* A tick with unit_status CRITICAL and rul 0 was handled and the unit is not
\* halted.
C23_Witness ==
  /\ lastOp = "telemetry"
  /\ lastMessage.unit_status = "CRITICAL"
  /\ lastMessage.rul = 0
  /\ lastAlert # Null
  /\ ~visible

\* C24: after a telemetry frame the live tick is that frame's payload, whether
\* or not the unit is halted.
C24_TickReplacesLive ==
  [][ lastOp' = "telemetry" => lastMessage' = lastFrame'.value ]_vars

\* While halted on a frozen snapshot of one cycle, a tick of another cycle was
\* taken as the live tick.
C24_Witness ==
  /\ lastOp = "telemetry"
  /\ visible
  /\ lastMessage = lastFrame.value
  /\ Has(criticalEvent, "cycle") /\ lastMessage.cycle # criticalEvent.cycle

\* C25: a solution frame makes the held solution equal to its payload, and the
\* held solution changes in no other way than by such a frame or by becoming
\* null at a reset; so a held solution is the payload of the latest solution
\* frame since the last reset.
C25_SolutionReplacedWhole ==
  [][ /\ lastOp' = "solution" => agentSolution' = lastFrame'.value
      /\ agentSolution' # agentSolution =>
           \/ lastOp' = "solution"
           \/ agentSolution' = Null ]_vars

\* A solution frame without a decision arrived during an incident and its
\* payload, with no decision of an earlier frame, is held.
C25_Witness ==
  /\ lastOp = "solution"
  /\ agentSolution = lastFrame.value
  /\ ~Has(agentSolution, "decision")
  /\ visible
  /\ Len(streamingLogs) > 0

\* C26: a step frame changes only the timeline, a solution frame only the held
\* solution, an alert frame only the last alert and, when it is critical or
\* flagged, the halt with its frozen snapshot, a telemetry frame only the live
\* tick; none of them changes the connection or the App state.
C26_OneSlicePerFrame ==
  [][ /\ lastOp' = "mcp_step" =>
           UNCHANGED <<lastMessage, lastAlert, criticalEvent, agentSolution>>
      /\ lastOp' = "solution" =>
           UNCHANGED <<lastMessage, lastAlert, criticalEvent, streamingLogs>>
      /\ lastOp' = "alert" =>
           /\ UNCHANGED <<lastMessage, streamingLogs, agentSolution>>
           /\ lastAlert' = lastFrame'.value
           /\ criticalEvent' = IF CriticalOrError(lastFrame'.value)
                               THEN lastFrame'.value ELSE criticalEvent
      /\ lastOp' = "telemetry" =>
           UNCHANGED <<lastAlert, criticalEvent, streamingLogs, agentSolution>>
      /\ lastOp' \in {"mcp_step", "solution", "alert", "telemetry"} =>
           UNCHANGED <<unitId, connState, appState>> ]_vars

\* An alert was handled while a live tick, a timeline and a solution were held.
C26_Witness ==
  /\ lastOp = "alert"
  /\ lastAlert = lastFrame.value
  /\ Has(lastMessage, "unit_status")
  /\ Len(streamingLogs) > 0
  /\ agentSolution # Null

\* C27: an error, a close, a reconnect timeout firing and an open change none of
\* the live tick, the last alert, the halt and its frozen snapshot, the timeline
\* and the held solution, nor the selected unit or the App state; what they
\* change is among the connected flag, the retry counter, the timer and the
\* socket.
C27_OutageKeepsState ==
  [][ lastOp' \in {"onerror", "onclose", "timer", "onopen"} =>
        UNCHANGED <<hookState, unitId, appState>> ]_vars

\* Connected again on a second socket with the state of the incident still held.
C27_Witness ==
  /\ lastOp = "onopen"
  /\ Len(sockets) >= 2
  /\ connected
  /\ Has(lastMessage, "unit_status")
  /\ visible
  /\ Len(streamingLogs) > 0
  /\ agentSolution # Null

\* The steps that empty the timeline: the resume broadcast, the overlay's
\* dismissing actions, and a unit change.
TimelineResets ==
  {"system_resumed", "onDismiss", "onOrchestrate", "accepted", "resumeFailed", "setUnitId"}

\* Every step of a is in b at the same position.
IsPrefix(a, b) == Len(a) <= Len(b) /\ \A i \in DOMAIN a : b[i] = a[i]

\* C28: apart from the resetting steps, which empty it, no step shortens the
\* timeline or moves a step it holds.
C28_TimelineGrows ==
  [][ IF lastOp' \in TimelineResets
      THEN streamingLogs' = <<>>
      ELSE IsPrefix(streamingLogs, streamingLogs') ]_vars

\* A second step was appended behind the first.
C28_Witness ==
  /\ lastOp = "mcp_step"
  /\ Len(streamingLogs) = 2
  /\ streamingLogs[2] = lastFrame.value

\* C29 as claimed: while halted, a step frame or a solution frame leaves solving
\* set, and solving once set stays set for as long as the halt lasts.
C29_SolvingOnceObserved ==
  [][ /\ (visible' /\ lastOp' \in {"mcp_step", "solution"}) => solving'
      /\ (visible /\ visible' /\ solving) => solving' ]_vars

\* C29 amended: while halted, a step frame leaves solving set when no solution
\* with a decision is held; a solution frame that carries a decision leaves it
\* cleared; a solution frame without one leaves it set exactly when the
\* timeline holds a step, so a solution alone never sets it.
C29_SolvingUntilDecision ==
  [][ /\ (visible' /\ lastOp' = "mcp_step" /\ ~Has(agentSolution, "decision"))
           => solving'
      /\ (visible' /\ lastOp' = "solution" /\ Has(lastFrame'.value, "decision"))
           => ~solving'
      /\ (visible' /\ lastOp' = "solution" /\ ~Has(lastFrame'.value, "decision"))
           => (solving' <=> Len(streamingLogs) > 0) ]_vars

\* Halted with steps in the timeline, a solution with a decision has arrived
\* and solving is cleared.
C29_Witness ==
  /\ lastOp = "solution"
  /\ visible
  /\ Len(streamingLogs) > 0
  /\ Has(agentSolution, "decision")
  /\ ~solving

\* The operator's actions on the overlay, by the history name of the step that
\* completes them; the last two complete an action that issued the resume
\* request.
OperatorOps == {"onDismiss", "onOrchestrate", "accepted", "resumeFailed"}

\* C30: an operator action that takes the halt away is one that issued a resume
\* request: the halt is never cleared by a dismissal that asked the backend
\* nothing.
C30_DismissalAsksResume ==
  [][ (visible /\ ~visible' /\ lastOp' \in OperatorOps)
        => lastOp' \in {"accepted", "resumeFailed"} ]_vars

\* C21 amended: after an alert frame whose isError is true or whose severity is
\* critical has been handled the overlay is visible; a telemetry frame, whatever
\* unit_status it reports, leaves the overlay as it was.
C21_OverlayOnQualifyingAlert ==
  [][ /\ (lastOp' = "alert" /\ CriticalOrError(lastFrame'.value)) => visible'
      /\ lastOp' = "telemetry" => (visible' <=> visible) ]_vars

\* The overlay is up for an alert that is critical but not flagged as an error,
\* over a healthy live tick.
C21_Witness ==
  /\ lastOp = "alert"
  /\ lastAlert.severity = "critical"
  /\ ~lastAlert.isError
  /\ Has(lastMessage, "unit_status") /\ lastMessage.unit_status = "HEALTHY"
  /\ visible


\* C31: while halted, the frozen snapshot changes only by leaving the halted
\* state: a step that starts halted and ends halted keeps criticalEvent as it was.
C31_FrozenUntilLeft ==
  [][ (visible /\ visible') => criticalEvent' = criticalEvent ]_vars


\* C32: the connected flag is true exactly when the current transport handle
\* is an open socket.
C32_ConnectedIffOpen ==
  connected <=> (wsRef \in DOMAIN sockets /\ sockets[wsRef].st = "open")


\* C33: a response that replaces the held orchestration snapshot is a response
\* for the currently selected unit: a response to a request made for another
\* unit never overwrites it.
C33_SnapshotForSelectedUnit ==
  [][ (lastOp' = "runOk" /\ data' # data) => data'.unit_id = unitId' ]_vars


\* C34: the loading flag is true exactly while at least one orchestration
\* request is in flight.
C34_LoadingIffInFlight == loading <=> Len(runs) > 0

=============================================================================
